---- MODULE Spec2Model ----
(***************************************************************************)
(* Model of image_reducer.py: the directory scanner get_image_files, the   *)
(* per-image transform reduce_image_size, the folder provisioner           *)
(* create_folders and the batch driver main.                               *)
(*                                                                         *)
(* Strings that the code compares, lower-cases or sorts (file names and    *)
(* paths) are sequences of character codes, so that str.lower,             *)
(* str.endswith and the ordering used by sorted() are computed rather than *)
(* assumed.  A Python call that may raise is modelled by a record          *)
(* [exc, val]: exc = "none" for a normal return.                           *)
(***************************************************************************)
EXTENDS Integers, Sequences, FiniteSets, TLC

VARIABLES
    pc,                    \* position in main, or phase of a direct call
    photos,                \* the input folder: [kind, readable, entries]
    provisionable,         \* whether os.makedirs can succeed under script_dir
    image_files,           \* main: result of get_image_files
    idx,                   \* main: 1-based position of the for loop
    processed_count,       \* main: RunTotals
    total_original_size,
    total_new_size,
    out,                   \* console: sequence of printed lines (tag, subject)
    calls,                 \* history: calls made by main, with their outcomes
    fsdirs,                \* directories created under script_dir
    backup,                \* file names present in the backup folder
    reduced,               \* file names written in the reduced folder
    arg,                   \* direct call: the arguments
    res                    \* direct call: the result

vars == << pc, photos, provisionable, image_files, idx, processed_count,
           total_original_size, total_new_size, out, calls, fsdirs, backup,
           reduced, arg, res >>

mainvars == << image_files, idx, processed_count, total_original_size,
               total_new_size, out, calls, fsdirs, backup, reduced,
               provisionable >>

----------------------------------------------------------------------------
(* Bounds of the model.                                                    *)

MaxEntries == 3      \* entries of a directory listing given to the scanner
MaxFiles == 3        \* entries of the photos folder in a run of main
MaxBytes == 2        \* byte size of a source file or of an encoded output
MaxDim == 5          \* width / height of a decoded image
MaxBound == 3        \* max_width / max_height of a direct transform call

----------------------------------------------------------------------------
(* Python values.                                                          *)

Return(v) == [exc |-> "none", val |-> v]
Raise(e) == [exc |-> e, val |-> << >>]

Abs(n) == IF n < 0 THEN -n ELSE n
Max2(a, b) == IF a >= b THEN a ELSE b

\* str.lower on one character code: 'A'..'Z' -> 'a'..'z'.
LowerChar(c) == IF c \in 65..90 THEN c + 32 ELSE c
lower(s) == [i \in 1..Len(s) |-> LowerChar(s[i])]

EndsWith(s, suf) ==
    /\ Len(s) >= Len(suf)
    /\ SubSeq(s, Len(s) - Len(suf) + 1, Len(s)) = suf

\* str.endswith with a tuple of suffixes.
endswith(s, sufs) == \E i \in 1..Len(sufs) : EndsWith(s, sufs[i])

\* Python's ordering of str: by code point, a proper prefix first.
RECURSIVE StrLess(_, _)
StrLess(s, t) ==
    IF t = << >> THEN FALSE
    ELSE IF s = << >> THEN TRUE
    ELSE IF Head(s) # Head(t) THEN Head(s) < Head(t)
    ELSE StrLess(Tail(s), Tail(t))

\* sorted(list of str): stable insertion into an ascending sequence.
RECURSIVE InsertSorted(_, _)
InsertSorted(x, s) ==
    IF s = << >> THEN << x >>
    ELSE IF StrLess(x, Head(s)) THEN << x >> \o s
    ELSE << Head(s) >> \o InsertSorted(x, Tail(s))

RECURSIVE sorted(_)
sorted(s) ==
    IF s = << >> THEN << >>
    ELSE InsertSorted(s[Len(s)], sorted(SubSeq(s, 1, Len(s) - 1)))

\* os.path.join(folder_path, filename) for a relative filename: '/' between.
os_path_join(folder_path, filename) == folder_path \o << 47 >> \o filename

RECURSIVE LastIndexOf(_, _)
LastIndexOf(s, c) ==
    IF s = << >> THEN 0
    ELSE IF s[Len(s)] = c THEN Len(s)
    ELSE LastIndexOf(SubSeq(s, 1, Len(s) - 1), c)

\* os.path.basename of a path.
os_path_basename(p) == SubSeq(p, LastIndexOf(p, 47) + 1, Len(p))

----------------------------------------------------------------------------
(* Directory Scanner.                                                      *)

\* ('.jpg', '.jpeg', '.png', '.bmp', '.tiff', '.webp')
supported_formats ==
    << << 46, 106, 112, 103 >>,
       << 46, 106, 112, 101, 103 >>,
       << 46, 112, 110, 103 >>,
       << 46, 98, 109, 112 >>,
       << 46, 116, 105, 102, 102 >>,
       << 46, 119, 101, 98, 112 >> >>

\* os.listdir: the entries of a readable directory, in the order the OS
\* gives them; an error for a missing path, a non-directory or no permission.
os_listdir(folder) ==
    IF folder.kind = "missing" THEN Raise("FileNotFoundError")
    ELSE IF folder.kind = "file" THEN Raise("NotADirectoryError")
    ELSE IF ~folder.readable THEN Raise("PermissionError")
    ELSE Return(folder.entries)

\* A scanner that answers a failed listing with the empty list.
get_image_files_swallow(folder_path, folder) ==
    LET listing == os_listdir(folder)
        names == SelectSeq(listing.val,
                     LAMBDA f : endswith(lower(f), supported_formats))
    IN  Return(sorted([i \in 1..Len(names) |->
                          os_path_join(folder_path, names[i])]))

get_image_files(folder_path, folder) ==
    LET listing == os_listdir(folder)
        names == SelectSeq(listing.val,
                     LAMBDA f : endswith(lower(f), supported_formats))
    IN  IF listing.exc # "none" THEN Raise(listing.exc)
        ELSE Return(sorted([i \in 1..Len(names) |->
                               os_path_join(folder_path, names[i])]))

----------------------------------------------------------------------------
(* Image Transform.                                                        *)
(*                                                                         *)
(* An image file is [bytes, mode, size, orientation]: its byte size, and   *)
(* the colour mode, stored pixel size <<w, h>> and EXIF orientation that   *)
(* Image.open finds in it.  Arithmetic that Pillow does in floating point  *)
(* (the aspect ratio in Image.thumbnail) is done here in exact rationals.  *)

\* Modes the JPEG encoder accepts (Pillow's JpegImagePlugin RAWMODE).
JPEG_RAWMODE == {"1", "L", "RGB", "RGBX", "CMYK", "YCbCr"}

\* Classes below Exception that the calls of reduce_image_size raise.
OSErrorClasses ==
    {"OSError", "FileNotFoundError", "PermissionError", "IsADirectoryError",
     "NotADirectoryError", "FileExistsError", "UnidentifiedImageError"}
ExceptionClasses ==
    OSErrorClasses \cup {"ValueError", "MemoryError", "ZeroDivisionError"}

\* ImageOps.exif_transpose: orientations 5..8 exchange width and height.
exif_transpose(img) ==
    [mode |-> img.mode,
     size |-> IF img.orientation \in 5..8
              THEN << img.size[2], img.size[1] >>
              ELSE img.size]

\* A thumbnail that fits the width only.
thumbnail_width_only(size, bound) ==
    LET w == size[1]
        h == size[2]
        x == bound[1]
    IN  IF x >= w THEN size ELSE << x, Max2((x * h) \div w, 1) >>

\* Image.thumbnail(bound): the size after the call (preserve_aspect_ratio
\* with round_aspect; aspect = w / h, keys compared over common denominators).
thumbnail(size, bound) ==
    LET w == size[1]
        h == size[2]
        x == bound[1]
        y == bound[2]
        \* x / y >= aspect: the height is the limiting dimension
        xlo == (y * w) \div h
        xhi == IF (y * w) % h = 0 THEN xlo ELSE xlo + 1
        xpick == IF Abs(w * y - xlo * h) <= Abs(w * y - xhi * h)
                 THEN xlo ELSE xhi
        \* otherwise the width is
        ylo == (x * h) \div w
        yhi == IF (x * h) % w = 0 THEN ylo ELSE ylo + 1
        ypick == IF ylo = 0 THEN ylo
                 ELSE IF Abs(w * ylo - x * h) * yhi <= Abs(w * yhi - x * h) * ylo
                 THEN ylo ELSE yhi
    IN  IF x >= w /\ y >= h THEN size
        ELSE IF x * h >= w * y THEN << Max2(xpick, 1), y >>
        ELSE << x, Max2(ypick, 1) >>

NoImage == [mode |-> "none", size |-> << 0, 0 >>]

\* The try block of reduce_image_size.  fault names the call at which the
\* environment makes the library or the OS raise ("none": nowhere);
\* dst_bytes is the byte size of the file the encoder produces, at least 1
\* (a JPEG file is never empty).  Image.open identifies no image in a file
\* of 0 bytes.
\* Result: [exc, val, out, saved], saved being the image written at
\* output_path (NoImage when img.save did not complete).
transform_body(image_path, img, dst_bytes, fault, quality, max_width, max_height) ==
    LET opened == exif_transpose(img)
        converts == opened.mode \in {"RGBA", "P"}
        mode == IF converts THEN "RGB" ELSE opened.mode
        original_width == opened.size[1]
        original_height == opened.size[2]
        resizes == original_width > max_width \/ original_height > max_height
        size == IF resizes
                THEN thumbnail(opened.size, << max_width, max_height >>)
                ELSE opened.size
        original_size == img.bytes
        new_size == dst_bytes
        encoded == [mode |-> mode, size |-> size]
        resized == IF resizes
                   THEN << << "Resized", os_path_basename(image_path) >> >>
                   ELSE << >>
        Fail(e, printed, saved) ==
            [exc |-> e, val |-> << 0, 0 >>, out |-> printed, saved |-> saved]
    IN  IF fault = "open" \/ img.bytes = 0
        THEN Fail("UnidentifiedImageError", << >>, NoImage)
        ELSE IF fault = "exif_transpose"
        THEN Fail("ValueError", << >>, NoImage)
        ELSE IF fault = "convert" /\ converts
        THEN Fail("ValueError", << >>, NoImage)
        ELSE IF fault = "thumbnail" /\ resizes
        THEN Fail("MemoryError", << >>, NoImage)
        ELSE IF fault = "getsize_src"
        THEN Fail("FileNotFoundError", resized, NoImage)
        ELSE IF fault = "save" \/ mode \notin JPEG_RAWMODE
        THEN Fail("OSError", resized, NoImage)
        ELSE IF fault = "getsize_dst"
        THEN Fail("FileNotFoundError", resized, encoded)
        ELSE IF original_size = 0
        THEN Fail("ZeroDivisionError", resized, encoded)
        ELSE [exc |-> "none",
              val |-> << original_size, new_size >>,
              out |-> resized \o
                      << << "Compressed", os_path_basename(image_path) >> >>,
              saved |-> encoded]

\* A transform whose handler catches OSError only.
reduce_image_size_oserror(image_path, img, dst_bytes, fault, quality, max_width, max_height) ==
    LET b == transform_body(image_path, img, dst_bytes, fault, quality,
                            max_width, max_height)
    IN  IF b.exc = "none"
        THEN [exc |-> "none", val |-> b.val, out |-> b.out, saved |-> b.saved]
        ELSE IF b.exc \in OSErrorClasses
        THEN [exc |-> "none", val |-> << 0, 0 >>,
              out |-> b.out \o << << "Error processing", image_path >> >>,
              saved |-> b.saved]
        ELSE [exc |-> b.exc, val |-> << >>, out |-> b.out, saved |-> b.saved]

\* reduce_image_size: the try block under `except Exception`.
\* Result: [exc, val, out, saved]; exc is an exception that leaves the call.
reduce_image_size(image_path, img, dst_bytes, fault, quality, max_width, max_height) ==
    LET b == transform_body(image_path, img, dst_bytes, fault, quality,
                            max_width, max_height)
    IN  IF b.exc = "none"
        THEN [exc |-> "none", val |-> b.val, out |-> b.out, saved |-> b.saved]
        ELSE IF b.exc \in ExceptionClasses
        THEN [exc |-> "none", val |-> << 0, 0 >>,
              out |-> b.out \o << << "Error processing", image_path >> >>,
              saved |-> b.saved]
        ELSE [exc |-> b.exc, val |-> << >>, out |-> b.out, saved |-> b.saved]

----------------------------------------------------------------------------
(* Inputs.                                                                 *)

\* "/s/photos": input_folder, the photos folder beside the script.
PhotosPath == << 47, 115, 47, 112, 104, 111, 116, 111, 115 >>

\* File names a listing is drawn from: every supported extension, upper and
\* mixed case, an unsupported extension, no extension, a supported extension
\* that is not last.
NamePool ==
    {
      << 97, 46, 106, 112, 103 >>,    \* a.jpg
      << 66, 46, 74, 80, 71 >>,    \* B.JPG
      << 99, 46, 74, 112, 101, 103 >>,    \* c.Jpeg
      << 100, 46, 112, 110, 103 >>,    \* d.png
      << 101, 46, 98, 109, 112 >>,    \* e.bmp
      << 102, 46, 116, 105, 102, 102 >>,    \* f.tiff
      << 103, 46, 119, 101, 98, 112 >>,    \* g.webp
      << 104, 46, 116, 120, 116 >>,    \* h.txt
      << 106, 112, 103 >>,    \* jpg
      << 105, 46, 106, 112, 103, 46, 98, 97, 107 >>     \* i.jpg.bak
    }

\* File names of the photos folder in a run of main.
MainPool ==
    {
      << 98, 46, 106, 112, 103 >>,    \* b.jpg
      << 65, 46, 80, 78, 71 >>,    \* A.PNG
      << 99, 46, 116, 120, 116 >>,    \* c.txt
      << 97, 46, 119, 101, 98, 112 >>     \* a.webp
    }

\* Sequences of at most n distinct members of S: listings in any OS order.
Listings(S, n) ==
    { s \in UNION { [1..k -> S] : k \in 0..n } :
        \A i, j \in 1..Len(s) : i # j => s[i] # s[j] }

Range(s) == { s[i] : i \in 1..Len(s) }

Modes == {"RGB", "RGBA", "P", "L", "LA", "PA"}
Orientations == {1, 6}
Faults == {"none", "open", "exif_transpose", "convert", "thumbnail",
           "getsize_src", "save", "getsize_dst"}

\* Run parameters of main.
QUALITY == 85
MAX_WIDTH == 1200
MAX_HEIGHT == 1200

NoArg == [op |-> "none"]
NoRes == [exc |-> "none", val |-> << >>]
NoFolder == [kind |-> "missing", readable |-> FALSE, entries |-> << >>]

\* The variables of main while a function is called directly.
MainIdle ==
    /\ photos = NoFolder
    /\ provisionable = FALSE
    /\ image_files = << >>
    /\ idx = 0
    /\ processed_count = 0
    /\ total_original_size = 0
    /\ total_new_size = 0
    /\ out = << >>
    /\ calls = << >>
    /\ fsdirs = {}
    /\ backup = {}
    /\ reduced = {}

----------------------------------------------------------------------------
(* Direct calls of the scanner: get_image_files on any folder.             *)

ScanInit ==
    /\ pc = "call"
    /\ \E kind \in {"missing", "file", "dir"}, readable \in BOOLEAN :
       \E entries \in (IF kind = "dir" THEN Listings(NamePool, MaxEntries)
                       ELSE {<< >>}) :
       \E subdirs \in SUBSET Range(entries) :
          arg = [op |-> "get_image_files",
                 folder_path |-> PhotosPath,
                 folder |-> [kind |-> kind, readable |-> readable,
                             entries |-> entries],
                 subdirs |-> subdirs]
    /\ res = NoRes
    /\ MainIdle

CallGetImageFiles ==
    /\ pc = "call"
    /\ arg.op = "get_image_files"
    /\ res' = get_image_files(arg.folder_path, arg.folder)
    /\ pc' = "returned"
    /\ UNCHANGED << arg, photos, mainvars >>

ScanNext == CallGetImageFiles

ScanSpec == ScanInit /\ [][ScanNext]_vars

----------------------------------------------------------------------------
(* Direct calls of the transform: reduce_image_size on any image.          *)

ReduceInit ==
    /\ pc = "call"
    /\ \E bytes \in 0..MaxBytes, mode \in Modes, w \in 1..MaxDim,
          h \in 1..MaxDim, orientation \in Orientations,
          dst_bytes \in 1..MaxBytes, fault \in Faults,
          max_width \in 1..MaxBound, max_height \in 1..MaxBound :
          arg = [op |-> "reduce_image_size",
                 image_path |-> os_path_join(PhotosPath, << 97, 46, 106, 112, 103 >>),
                 img |-> [bytes |-> bytes, mode |-> mode, size |-> << w, h >>,
                          orientation |-> orientation],
                 dst_bytes |-> dst_bytes,
                 fault |-> fault,
                 quality |-> QUALITY,
                 max_width |-> max_width,
                 max_height |-> max_height]
    /\ res = NoRes
    /\ MainIdle

CallReduceImageSize ==
    /\ pc = "call"
    /\ arg.op = "reduce_image_size"
    /\ res' = reduce_image_size(arg.image_path, arg.img, arg.dst_bytes,
                                arg.fault, arg.quality, arg.max_width,
                                arg.max_height)
    /\ pc' = "returned"
    /\ UNCHANGED << arg, photos, mainvars >>

ReduceNext == CallReduceImageSize

ReduceSpec == ReduceInit /\ [][ReduceNext]_vars

----------------------------------------------------------------------------
(* Folder Provisioner.                                                     *)

\* os.makedirs(name, exist_ok=True) among the directories dirs of script_dir.
os_makedirs(dirs, name, can_create) ==
    IF name \in dirs THEN Return(dirs)
    ELSE IF can_create THEN Return(dirs \cup {name})
    ELSE [exc |-> "PermissionError", val |-> dirs]

\* create_folders: [exc, val, dirs], val the pair of folder names and dirs
\* the directories of script_dir after the call.
create_folders(dirs, can_create) ==
    LET first == os_makedirs(dirs, "backup", can_create)
        second == os_makedirs(first.val, "reduced", can_create)
    IN  IF first.exc # "none"
        THEN [exc |-> first.exc, val |-> << >>, dirs |-> first.val]
        ELSE IF second.exc # "none"
        THEN [exc |-> second.exc, val |-> << >>, dirs |-> second.val]
        ELSE [exc |-> "none", val |-> << "backup", "reduced" >>,
              dirs |-> second.val]

----------------------------------------------------------------------------
(* Batch Driver: main, one action per step of its control flow.            *)

\* Decoded size of the images of a run: beyond 1200 x 1200.
MainSizes == { << 2000, 1500 >> }
MainModes == {"RGBA", "LA"}
\* Calls of the transform that the environment fails in a run of main.
MainFaults == {"none", "open", "save", "getsize_dst"}

Call(op, file, exc, val, saved) ==
    [op |-> op, file |-> file, exc |-> exc, val |-> val, saved |-> saved]

Line(tag, subject) == << tag, subject >>

Init ==
    /\ pc = "check"
    /\ \E kind \in {"missing", "file", "dir"}, readable \in BOOLEAN :
       \E entries \in (IF kind = "dir" THEN Listings(MainPool, MaxFiles)
                       ELSE {<< >>}) :
          photos = [kind |-> kind, readable |-> readable, entries |-> entries]
    /\ provisionable \in BOOLEAN
    /\ fsdirs \in SUBSET {"backup", "reduced"}
    /\ image_files = << >>
    /\ idx = 0
    /\ processed_count = 0
    /\ total_original_size = 0
    /\ total_new_size = 0
    /\ out = << >>
    /\ calls = << >>
    /\ backup = {}
    /\ reduced = {}
    /\ arg = NoArg
    /\ res = NoRes

\* A check that tests os.path.exists only.
CheckInput_no_isdir ==
    /\ pc = "check"
    /\ IF photos.kind = "missing"
       THEN /\ out' = Append(out, Line("Error: Photos folder not found",
                                       PhotosPath))
            /\ pc' = "done"
       ELSE /\ out' = out
            /\ pc' = "scan"
    /\ UNCHANGED << photos, provisionable, image_files, idx, processed_count,
                    total_original_size, total_new_size, calls, fsdirs,
                    backup, reduced, arg, res >>

\* os.path.exists / os.path.isdir on input_folder, and the two early returns.
CheckInput ==
    /\ pc = "check"
    /\ IF photos.kind = "missing"
       THEN /\ out' = Append(out, Line("Error: Photos folder not found",
                                       PhotosPath))
            /\ pc' = "done"
       ELSE IF photos.kind # "dir"
       THEN /\ out' = Append(out, Line("Error: is not a directory",
                                       PhotosPath))
            /\ pc' = "done"
       ELSE /\ out' = out
            /\ pc' = "scan"
    /\ UNCHANGED << photos, provisionable, image_files, idx, processed_count,
                    total_original_size, total_new_size, calls, fsdirs,
                    backup, reduced, arg, res >>

\* image_files = get_image_files(input_folder), and the return on no images.
\* An exception of the scan is not handled: it leaves main.
Scan ==
    /\ pc = "scan"
    /\ LET r == get_image_files(PhotosPath, photos)
       IN  /\ calls' = Append(calls, Call("get_image_files", PhotosPath,
                                          r.exc, << >>, FALSE))
           /\ IF r.exc # "none"
              THEN /\ res' = Raise(r.exc)
                   /\ pc' = "raised"
                   /\ UNCHANGED << image_files, out >>
              ELSE IF r.val = << >>
              THEN /\ image_files' = r.val
                   /\ out' = out \o << Line("No image files found", PhotosPath),
                                       Line("Supported formats", << >>) >>
                   /\ pc' = "done"
                   /\ res' = res
              ELSE /\ image_files' = r.val
                   /\ pc' = "provision"
                   /\ UNCHANGED << out, res >>
    /\ UNCHANGED << photos, provisionable, idx, processed_count,
                    total_original_size, total_new_size, fsdirs, backup,
                    reduced, arg >>

\* create_folders(script_dir), the header lines and the zeroed totals.
\* An exception of os.makedirs is not handled: it leaves main.
CreateFolders ==
    /\ pc = "provision"
    /\ LET r == create_folders(fsdirs, provisionable)
       IN  /\ calls' = Append(calls, Call("create_folders", << >>, r.exc,
                                          << >>, FALSE))
           /\ fsdirs' = r.dirs
           /\ IF r.exc # "none"
              THEN /\ res' = Raise(r.exc)
                   /\ pc' = "raised"
                   /\ UNCHANGED << out, idx, processed_count,
                                   total_original_size, total_new_size >>
              ELSE /\ out' = out \o
                        << Line("Starting image compression", << >>),
                           Line("Found images to process",
                                << Len(image_files) >>) >>
                   /\ processed_count' = 0
                   /\ total_original_size' = 0
                   /\ total_new_size' = 0
                   /\ idx' = 1
                   /\ pc' = "backup"
                   /\ res' = res
    /\ UNCHANGED << photos, provisionable, image_files, backup, reduced, arg >>

\* The next iteration of `for image_path in image_files`, or the summary.
NextFile ==
    /\ idx' = idx + 1
    /\ pc' = IF idx + 1 > Len(image_files) THEN "summary" ELSE "backup"

\* A driver that goes on to the transform after a failed copy.
Backup_falls_through ==
    /\ pc = "backup"
    /\ idx \in 1..Len(image_files)
    /\ LET image_path == image_files[idx]
           filename == os_path_basename(image_path)
       IN  \E exc \in {"none", "OSError"} :
           /\ calls' = Append(calls, Call("copy2", image_path, exc, << >>,
                                          exc = "none"))
           /\ IF exc = "none"
              THEN /\ backup' = backup \cup {filename}
                   /\ out' = Append(out, Line("Created backup", filename))
              ELSE /\ out' = Append(out, Line("Error processing", filename))
                   /\ backup' = backup
           /\ pc' = "transform"
           /\ idx' = idx
    /\ UNCHANGED << photos, provisionable, image_files, processed_count,
                    total_original_size, total_new_size, fsdirs, reduced,
                    arg, res >>

\* A driver that lets a failed copy leave main.
Backup_abort ==
    /\ pc = "backup"
    /\ idx \in 1..Len(image_files)
    /\ LET image_path == image_files[idx]
           filename == os_path_basename(image_path)
       IN  \E exc \in {"none", "OSError"} :
           /\ calls' = Append(calls, Call("copy2", image_path, exc, << >>,
                                          exc = "none"))
           /\ IF exc = "none"
              THEN /\ backup' = backup \cup {filename}
                   /\ out' = Append(out, Line("Created backup", filename))
                   /\ pc' = "transform"
                   /\ UNCHANGED << idx, res >>
              ELSE /\ res' = Raise(exc)
                   /\ pc' = "raised"
                   /\ UNCHANGED << out, backup, idx >>
    /\ UNCHANGED << photos, provisionable, image_files, processed_count,
                    total_original_size, total_new_size, fsdirs, reduced,
                    arg >>

\* shutil.copy2(image_path, backup_path) inside the loop's try: on success
\* the confirmation line, on an exception the handler's line and the next file.
Backup ==
    /\ pc = "backup"
    /\ idx \in 1..Len(image_files)
    /\ LET image_path == image_files[idx]
           filename == os_path_basename(image_path)
       IN  \E exc \in {"none", "OSError"} :
           /\ calls' = Append(calls, Call("copy2", image_path, exc, << >>,
                                          exc = "none"))
           /\ IF exc = "none"
              THEN /\ backup' = backup \cup {filename}
                   /\ out' = Append(out, Line("Created backup", filename))
                   /\ pc' = "transform"
                   /\ idx' = idx
              ELSE /\ out' = Append(out, Line("Error processing", filename))
                   /\ backup' = backup
                   /\ NextFile
    /\ UNCHANGED << photos, provisionable, image_files, processed_count,
                    total_original_size, total_new_size, fsdirs, reduced,
                    arg, res >>

\* A driver that counts whatever the transform returns.
signals_success_always(original_size, new_size) == TRUE

\* `if original_size > 0 and new_size > 0`
signals_success(original_size, new_size) ==
    original_size > 0 /\ new_size > 0

\* reduce_image_size(image_path, reduced_path, ...) inside the loop's try,
\* the accumulation of its result, and the handler of the try.
Transform ==
    /\ pc = "transform"
    /\ idx \in 1..Len(image_files)
    /\ \E bytes \in 0..MaxBytes, mode \in MainModes, size \in MainSizes,
          dst_bytes \in 1..MaxBytes, fault \in MainFaults :
       \E r \in { reduce_image_size(image_files[idx],
                      [bytes |-> bytes, mode |-> mode, size |-> size,
                       orientation |-> 1],
                      dst_bytes, fault, QUALITY, MAX_WIDTH, MAX_HEIGHT) } :
       \E filename \in { os_path_basename(image_files[idx]) } :
       \E counted \in { r.exc = "none" /\ signals_success(r.val[1], r.val[2]) } :
          /\ calls' = Append(calls, Call("reduce_image_size", image_files[idx],
                                         r.exc, r.val, r.saved # NoImage))
          /\ reduced' = IF r.saved # NoImage
                        THEN reduced \cup {filename} ELSE reduced
          /\ out' = IF r.exc = "none" THEN out \o r.out
                    ELSE out \o r.out \o
                         << Line("Error processing", filename) >>
          /\ total_original_size' =
                 IF counted THEN total_original_size + r.val[1]
                 ELSE total_original_size
          /\ total_new_size' =
                 IF counted THEN total_new_size + r.val[2]
                 ELSE total_new_size
          /\ processed_count' =
                 IF counted THEN processed_count + 1
                 ELSE processed_count
          /\ NextFile
    /\ UNCHANGED << photos, provisionable, image_files, fsdirs, backup,
                    arg, res >>

\* A summary that computes the reduction whatever the count.
Summary_unguarded ==
    /\ pc = "summary"
    /\ LET closing == << Line("Processing complete", << >>),
                         Line("Images processed", << processed_count >>) >>
       IN  IF total_original_size = 0
           THEN /\ out' = out \o closing
                /\ res' = Raise("ZeroDivisionError")
                /\ pc' = "raised"
           ELSE /\ out' = out \o closing \o
                          << Line("Total size reduction", << >>) >>
                /\ pc' = "done"
                /\ res' = res
    /\ UNCHANGED << photos, provisionable, image_files, idx, processed_count,
                    total_original_size, total_new_size, calls, fsdirs,
                    backup, reduced, arg >>

\* The closing lines; with processed_count > 0 the aggregate reduction
\* (total_original_size - total_new_size) / total_original_size.
Summary ==
    /\ pc = "summary"
    /\ LET closing == << Line("Processing complete", << >>),
                         Line("Images processed", << processed_count >>) >>
       IN  IF processed_count > 0
           THEN IF total_original_size = 0
                THEN /\ out' = out \o closing
                     /\ res' = Raise("ZeroDivisionError")
                     /\ pc' = "raised"
                ELSE /\ out' = out \o closing \o
                               << Line("Total size reduction", << >>) >>
                     /\ pc' = "done"
                     /\ res' = res
           ELSE /\ out' = out \o closing
                /\ pc' = "done"
                /\ res' = res
    /\ UNCHANGED << photos, provisionable, image_files, idx, processed_count,
                    total_original_size, total_new_size, calls, fsdirs,
                    backup, reduced, arg >>

Next ==
    \/ CheckInput
    \/ Scan
    \/ CreateFolders
    \/ Backup
    \/ Transform
    \/ Summary

Spec == Init /\ [][Next]_vars

----------------------------------------------------------------------------
(* Properties of the batch driver.                                         *)

CallIndices(op) == { i \in 1..Len(calls) : calls[i].op = op }

\* The copy of file f to the backup folder completed.
BackedUp(f) ==
    \E i \in CallIndices("copy2") :
        calls[i].file = f /\ calls[i].exc = "none"

\* Call i is a transform that returned sizes, not the sentinel (0, 0).
TransformSucceeded(i) ==
    /\ calls[i].op = "reduce_image_size"
    /\ calls[i].exc = "none"
    /\ calls[i].val # << 0, 0 >>

SucceededFiles ==
    { f \in Range(image_files) :
        BackedUp(f) /\ \E i \in 1..Len(calls) :
                          TransformSucceeded(i) /\ calls[i].file = f }

\* Sum of component k of the results of the successful transforms among the
\* first n calls.
RECURSIVE SumSucceeded(_, _)
SumSucceeded(n, k) ==
    IF n = 0 THEN 0
    ELSE SumSucceeded(n - 1, k) +
         (IF TransformSucceeded(n) THEN calls[n].val[k] ELSE 0)

Printed(tag) == \E i \in 1..Len(out) : out[i][1] = tag

\* C1: in every state of the loop, processed_count is the number of files
\* that were copied to backup and transformed successfully, each such file
\* was transformed once, and the totals are the sums of the sizes those
\* transforms returned; a file that failed at either step adds nothing.
C1_TotalsCountSucceededFiles ==
    /\ processed_count = Cardinality(SucceededFiles)
    /\ processed_count =
           Cardinality({ i \in 1..Len(calls) : TransformSucceeded(i) })
    /\ total_original_size = SumSucceeded(Len(calls), 1)
    /\ total_new_size = SumSucceeded(Len(calls), 2)

C1_Witness ==
    /\ pc = "done"
    /\ Len(image_files) = 3
    /\ processed_count = 1
    /\ total_original_size # total_new_size
    /\ \E i \in CallIndices("copy2") : calls[i].exc # "none"
    /\ \E i \in CallIndices("reduce_image_size") : calls[i].val = << 0, 0 >>

\* The files whose backup copy was attempted, in the order of the attempts.
Attempted ==
    LET copies == SelectSeq(calls, LAMBDA c : c.op = "copy2")
    IN  [i \in 1..Len(copies) |-> copies[i].file]

SummaryPrinted ==
    /\ Printed("Processing complete")
    /\ \E i \in 1..Len(out) :
           out[i] = Line("Images processed", << processed_count >>)

StepsLeft ==
    CASE pc = "check" -> 2 * Len(photos.entries) + 4
      [] pc = "scan" -> 2 * Len(photos.entries) + 3
      [] pc = "provision" -> 2 * Len(image_files) + 2
      [] pc = "backup" -> 2 * (Len(image_files) - idx + 1) + 1
      [] pc = "transform" -> 2 * (Len(image_files) - idx + 1)
      [] pc = "summary" -> 1
      [] OTHER -> 0

\* The guard of one of main's steps holds.
CanStep ==
    \/ pc \in {"check", "scan", "provision", "summary"}
    \/ pc \in {"backup", "transform"} /\ idx \in 1..Len(image_files)

FileIndex(f) == CHOOSE k \in 1..Len(image_files) : image_files[k] = f

\* C3: every transform call directly follows the successful backup copy of
\* the same file; after a failed copy the driver prints the error with the
\* file's name, never calls the transform for that file, writes nothing at
\* its name in the reduced folder, and goes on to the next file.
C3_TransformOnlyAfterBackup ==
    \A i \in 1..Len(calls) :
        /\ calls[i].op = "reduce_image_size" =>
               /\ i > 1
               /\ calls[i - 1].op = "copy2"
               /\ calls[i - 1].file = calls[i].file
               /\ calls[i - 1].exc = "none"
        /\ (calls[i].op = "copy2" /\ calls[i].exc # "none") =>
               /\ \E k \in 1..Len(out) :
                      out[k] = Line("Error processing",
                                    os_path_basename(calls[i].file))
               /\ \A j \in CallIndices("reduce_image_size") :
                      calls[j].file # calls[i].file
               /\ os_path_basename(calls[i].file) \notin reduced
               /\ i < Len(calls) =>
                      /\ calls[i + 1].op = "copy2"
                      /\ FileIndex(calls[i].file) < Len(image_files)
                      /\ calls[i + 1].file =
                             image_files[FileIndex(calls[i].file) + 1]
               /\ i = Len(calls) =>
                      IF FileIndex(calls[i].file) < Len(image_files)
                      THEN pc = "backup" /\ idx = FileIndex(calls[i].file) + 1
                      ELSE pc \in {"summary", "done"}

C3_Witness ==
    /\ pc = "done"
    /\ \E i \in CallIndices("copy2") :
           /\ calls[i].exc # "none"
           /\ \E j \in CallIndices("reduce_image_size") :
                  j > i /\ calls[j].saved
    /\ reduced # {}
    /\ Cardinality(reduced) < Cardinality(backup)

\* C6: with the photos folder missing or not a directory, main prints the
\* one error line and returns: no call of the scanner, the provisioner, the
\* copy or the transform is made, and no directory or file is created.
C6_AbortBeforeProvisioning ==
    /\ [](photos.kind # "dir" =>
            /\ calls = << >>
            /\ backup = {}
            /\ reduced = {}
            /\ pc \in {"check", "done"}
            /\ pc = "done" =>
                   out = << Line(IF photos.kind = "missing"
                                 THEN "Error: Photos folder not found"
                                 ELSE "Error: is not a directory",
                                 PhotosPath) >>)
    /\ [][photos.kind # "dir" =>
            UNCHANGED << fsdirs, backup, reduced, photos >>]_vars

C6_Witness ==
    /\ pc = "done"
    /\ photos.kind = "file"
    /\ provisionable
    /\ fsdirs = {}
    /\ Len(out) = 1

\* C10: a positive processed_count comes with positive totals, the count
\* never exceeds the number of discovered files, the summary's division is
\* never by zero, and the aggregate reduction is printed only when at least
\* one file was processed.
C10_SummaryDivisionSafe ==
    /\ processed_count > 0 =>
           total_original_size > 0 /\ total_new_size > 0
    /\ processed_count <= Len(image_files)
    /\ ~(pc = "raised" /\ res.exc = "ZeroDivisionError")
    /\ Printed("Total size reduction") => processed_count > 0
    /\ (pc = "done" /\ processed_count > 0) => Printed("Total size reduction")

C10_Witness ==
    /\ pc = "done"
    /\ processed_count = 2
    /\ Len(image_files) = 3
    /\ Printed("Total size reduction")

----------------------------------------------------------------------------
(* Properties of the scanner.                                              *)

\* C5 as stated: given a folder that is missing or not a directory, the
\* scanner returns to its caller without raising.
C5_ScannerDoesNotRaise ==
    (pc = "returned" /\ arg.folder.kind # "dir") => res.exc = "none"

\* C5, amended: given a missing folder or a path that is not a directory,
\* the scanner lets the FileNotFoundError / NotADirectoryError of os.listdir
\* go to its caller; it returns a list, empty or not, only for an existing
\* directory, so the two outcomes differ.
C5_ScannerRaisesOnBadFolder ==
    pc = "returned" =>
        /\ arg.folder.kind = "missing" => res.exc = "FileNotFoundError"
        /\ arg.folder.kind = "file" => res.exc = "NotADirectoryError"
        /\ (arg.folder.kind = "dir" /\ arg.folder.readable) =>
               res.exc = "none"
        /\ res.exc = "none" => arg.folder.kind = "dir"

C5_Witness ==
    /\ pc = "returned"
    /\ arg.folder.kind = "file"
    /\ res.exc = "NotADirectoryError"
    /\ res.val = << >>

\* The name has an extension (the part after its last '.') that, in lower
\* case, is one of jpg, jpeg, png, bmp, tiff, webp.
HasSupportedExtension(name) ==
    LET dot == LastIndexOf(name, 46)
    IN  /\ dot > 0
        /\ \E i \in 1..Len(supported_formats) :
               lower(SubSeq(name, dot + 1, Len(name))) =
                   Tail(supported_formats[i])

Ascending(s) == \A i \in 1..(Len(s) - 1) : StrLess(s[i], s[i + 1])

\* C9: the scanner returns exactly the paths of the directory's file entries
\* (not its subdirectories) that have a supported extension, in strictly
\* ascending order of path.
C9_ExactlyTheImageFilesSorted ==
    (pc = "returned" /\ res.exc = "none") =>
        /\ Range(res.val) =
               { os_path_join(arg.folder_path, n) :
                   n \in { m \in Range(arg.folder.entries) \ arg.subdirs :
                             HasSupportedExtension(m) } }
        /\ Ascending(res.val)

\* The same with the entry type left out: exactly the entries, files and
\* subdirectories alike, that have a supported extension, sorted.
ScannerIgnoresEntryType ==
    (pc = "returned" /\ res.exc = "none") =>
        /\ Range(res.val) =
               { os_path_join(arg.folder_path, n) :
                   n \in { m \in Range(arg.folder.entries) :
                             HasSupportedExtension(m) } }
        /\ Ascending(res.val)

----------------------------------------------------------------------------
(* Properties of the transform.                                            *)

\* The try block of the call in arg ends in an exception.
BodyFails ==
    transform_body(arg.image_path, arg.img, arg.dst_bytes, arg.fault,
                   arg.quality, arg.max_width, arg.max_height).exc # "none"

\* C4: no exception leaves reduce_image_size; when a step of its try block
\* fails it prints the error with the source path and returns (0, 0); it
\* returns two positive sizes only when the destination was written.
C4_TransformNeverPropagates ==
    pc = "returned" =>
        /\ res.exc = "none"
        /\ BodyFails =>
               /\ res.val = << 0, 0 >>
               /\ res.out # << >>
               /\ res.out[Len(res.out)] =
                      Line("Error processing", arg.image_path)
        /\ (res.val[1] > 0 /\ res.val[2] > 0) => res.saved # NoImage
        /\ ~BodyFails =>
               /\ res.val = << arg.img.bytes, arg.dst_bytes >>
               /\ res.val[1] > 0 /\ res.val[2] > 0

C4_Witness ==
    /\ pc = "returned"
    /\ arg.fault = "getsize_dst"
    /\ res.exc = "none"
    /\ res.val = << 0, 0 >>
    /\ res.saved # NoImage

\* C7: the size the transform encodes is the orientation-normalised input
\* size when that is within the bounds; otherwise it is within both bounds,
\* one dimension is at its bound and the other is less than one pixel from
\* the value that keeps the input's aspect ratio.
C7_EncodedSizeWithinBounds ==
    (pc = "returned" /\ res.saved # NoImage) =>
        LET in == exif_transpose(arg.img).size
            w == in[1]
            h == in[2]
            ow == res.saved.size[1]
            oh == res.saved.size[2]
        IN  IF w <= arg.max_width /\ h <= arg.max_height
            THEN res.saved.size = in
            ELSE /\ ow >= 1 /\ ow <= arg.max_width
                 /\ oh >= 1 /\ oh <= arg.max_height
                 /\ \/ ow = arg.max_width /\ Abs(oh * w - ow * h) < w
                    \/ oh = arg.max_height /\ Abs(ow * h - oh * w) < h

C7_Witness ==
    /\ pc = "returned"
    /\ res.saved # NoImage
    /\ arg.img.orientation = 6
    /\ arg.img.size = << 3, 5 >>
    /\ arg.max_width = 3
    /\ arg.max_height = 2
    /\ res.saved.size = << 3, 2 >>

AlphaOrPaletteModes == {"RGBA", "P", "LA", "PA"}

\* C8: an image whose mode has an alpha channel or a palette, and that no
\* call fails on, is transformed successfully into a 3-channel image.
C8_AlphaAndPaletteConverted ==
    (/\ pc = "returned"
     /\ arg.img.mode \in AlphaOrPaletteModes
     /\ arg.img.bytes > 0
     /\ arg.fault = "none") =>
        /\ res.val # << 0, 0 >>
        /\ res.saved # NoImage
        /\ res.saved.mode = "RGB"

\* The same for the two modes the code names.
ConvertsRGBAAndP ==
    (/\ pc = "returned"
     /\ arg.img.mode \in {"RGBA", "P"}
     /\ arg.img.bytes > 0
     /\ arg.fault = "none") =>
        /\ res.val # << 0, 0 >>
        /\ res.saved # NoImage
        /\ res.saved.mode = "RGB"

====
